---- MODULE Spec2Model ----
(***************************************************************************)
(* Model of discord/ui/modal.py: the Modal container (construction,        *)
(* add_item, is_persistent, to_callback_data) and the definition-time      *)
(* scan of Modal.__init_subclass__.                                        *)
(*                                                                         *)
(* Optional values are sequences: <<>> is None / MISSING, <<v>> is v.     *)
(* The base class View, the row allocator _ViewWeights and Item are not    *)
(* part of the sources at hand; their behaviour is taken from the          *)
(* written specification (sections 4.1 and 6).                             *)
(***************************************************************************)
EXTENDS Integers, Sequences, FiniteSets, TLC

VARIABLES
    modal,      \* the Modal instance: its attributes
    args,       \* the arguments its constructor was called with
    last,       \* the last call made on the instance and what it returned
    classes,    \* the chain of defined classes, Modal first
    lastDef     \* the last class statement executed and its outcome

vars == <<modal, args, last, classes, lastDef>>

----------------------------------------------------------------------------
(* Bounds *)

\* longest children list passed to the constructor
MaxInitChildren == 6

\* number of subclasses the chain may hold
MaxSubclasses == 3

----------------------------------------------------------------------------
(* Program constants *)

\* add_item: len(self.children) > 5
MaxChildren == 5

\* __init_subclass__: len(children) > 5
MaxClassChildren == 5

\* os.urandom(16)
RandomBytes == 16

\* Optional[float] = 180
DefaultTimeout == 180

\* rows of a component tree (section 4.1: rows 0-4)
NumRows == 5

\* width of one row (section 4.1: "failing if no row has room")
RowWidth == 5

None == <<>>
MISSING == <<>>
Some(v) == <<v>>

SELF == "modal"

----------------------------------------------------------------------------
(* Items *)

\* A freshly created Item: no view, not yet placed on a row.
FreshItem(name, persistent, width) ==
    [name |-> name, isItem |-> TRUE, persistent |-> persistent,
     width |-> width, view |-> None, rendered_row |-> None]

\* An object that is not an Item (e.g. a str).
NotAnItem ==
    [name |-> "str", isItem |-> FALSE, persistent |-> FALSE,
     width |-> 0, view |-> None, rendered_row |-> None]

Items == { FreshItem("input", TRUE, 1), FreshItem("select", FALSE, RowWidth) }

\* Item.is_persistent()
item_is_persistent(item) == item.persistent

\* Item.to_component_dict()
to_component_dict(item) == [type |-> item.name, width |-> item.width]

----------------------------------------------------------------------------
(* Identifier generation: os.urandom(16).hex() *)

HexDigits == <<"0", "1", "2", "3", "4", "5", "6", "7",
               "8", "9", "a", "b", "c", "d", "e", "f">>

HexByte(b) == HexDigits[(b \div 16) + 1] \o HexDigits[(b % 16) + 1]

RECURSIVE hex(_)
hex(bytes) ==
    IF bytes = <<>> THEN ""
    ELSE HexByte(Head(bytes)) \o hex(Tail(bytes))

\* Outcomes of os.urandom(16) the model draws from.
UrandomOutcomes ==
    { [i \in 1..RandomBytes |-> (i * 37) % 256],
      [i \in 1..RandomBytes |-> 255 - (i * 11)] }

----------------------------------------------------------------------------
(* Base container (View) and row allocation *)

\* View.__init__(timeout): timeout, an empty children list, empty rows.
View__init__(timeout) ==
    [timeout |-> timeout,
     children |-> <<>>,
     weights |-> [r \in 0..(NumRows - 1) |-> 0]]

\* _ViewWeights.find_open_space: the first row with room, None when none has.
find_open_space(weights, item) ==
    LET open == { r \in DOMAIN weights : weights[r] + item.width <= RowWidth }
    IN  IF open = {} THEN None
        ELSE Some(CHOOSE r \in open : \A q \in open : r <= q)

\* View.to_components(): children grouped by rendered row (None counts as
\* row 0), rows in ascending order, empty rows left out.
RowKey(item) == IF item.rendered_row = None THEN 0 ELSE item.rendered_row[1]

RowItems(children, r) ==
    LET InRow(item) == RowKey(item) = r
    IN  SelectSeq(children, InRow)

RECURSIVE RowsFrom(_, _)
RowsFrom(children, r) ==
    IF r >= NumRows THEN <<>>
    ELSE LET here == RowItems(children, r)
             row  == [type |-> 1,
                      components |-> [i \in 1..Len(here) |-> to_component_dict(here[i])]]
         IN  (IF here = <<>> THEN <<>> ELSE <<row>>) \o RowsFrom(children, r + 1)

to_components(m) == RowsFrom(m.children, 0)

----------------------------------------------------------------------------
(* Modal *)

TimeoutArgs == { None, Some(DefaultTimeout) }
TitleArgs == { None, Some(""), Some("Form") }
CustomIdArgs == { MISSING, Some(""), Some("abc") }
RowArgs == { None, Some(1) }

RECURSIVE SeqsUpTo(_, _)
SeqsUpTo(S, n) ==
    IF n = 0 THEN { <<>> }
    ELSE LET shorter == SeqsUpTo(S, n - 1)
         IN  shorter \cup { Append(s, x) : s \in shorter, x \in S }

ChildrenArgs == { MISSING } \cup { Some(cs) : cs \in SeqsUpTo(Items, MaxInitChildren) }

\* Modal.__init__ with the flag taken from the truth value of custom_id
\* instead of from its presence.
Modal__init__truthy(timeout, title, custom_id, row, children, rnd, bound) ==
    LET base == View__init__(timeout)
    IN  [timeout |-> base.timeout,
         weights |-> base.weights,
         weights_bound |-> bound,
         provided_custom_id |-> (custom_id # MISSING /\ custom_id[1] # ""),
         title |-> title,
         custom_id |-> IF custom_id = MISSING THEN hex(rnd) ELSE custom_id[1],
         row |-> row,
         children |-> IF children # MISSING
                      THEN base.children \o children[1]
                      ELSE base.children]

\* Modal.__init__.  rnd is what os.urandom returns if it is called; bound
\* says whether the private name self.__weights, written inside class Modal,
\* resolves on the instance (the base class that would bind it is not among
\* the sources).
Modal__init__(timeout, title, custom_id, row, children, rnd, bound) ==
    LET base == View__init__(timeout)
    IN  [timeout |-> base.timeout,
         weights |-> base.weights,
         weights_bound |-> bound,
         provided_custom_id |-> custom_id # MISSING,
         title |-> title,
         custom_id |-> IF custom_id = MISSING THEN hex(rnd) ELSE custom_id[1],
         row |-> row,
         children |-> IF children # MISSING
                      THEN base.children \o children[1]
                      ELSE base.children]

\* weights.add_item(item): place the item on the first row with room.
weights_add_item(m, item) ==
    LET space == find_open_space(m.weights, item)
    IN  IF space = None
        THEN [result |-> "ValueError: could not find open space for item",
              weights |-> m.weights, item |-> item]
        ELSE [result |-> "ok",
              weights |-> [m.weights EXCEPT ![space[1]] = @ + item.width],
              item |-> [item EXCEPT !.rendered_row = space]]

\* add_item with the back-reference set before row placement.
add_item_backref_first(m, item) ==
    IF Len(m.children) > MaxChildren
    THEN [modal |-> m, item |-> item,
          result |-> "ValueError: maximum number of children exceeded"]
    ELSE IF ~item.isItem
    THEN [modal |-> m, item |-> item, result |-> "TypeError: expected Item"]
    ELSE LET owned == [item EXCEPT !.view = Some(SELF)]
         IN  IF ~m.weights_bound
             THEN [modal |-> m, item |-> owned,
                   result |-> "AttributeError: _Modal__weights"]
             ELSE LET placed == weights_add_item(m, owned)
                  IN  IF placed.result # "ok"
                      THEN [modal |-> m, item |-> owned, result |-> placed.result]
                      ELSE [modal |-> [m EXCEPT !.weights = placed.weights,
                                                !.children = Append(@, placed.item)],
                            item |-> placed.item,
                            result |-> "ok"]

\* Modal.add_item(item): the modal and the item after the call, and "ok" or
\* the exception raised.
add_item(m, item) ==
    IF Len(m.children) > MaxChildren
    THEN [modal |-> m, item |-> item,
          result |-> "ValueError: maximum number of children exceeded"]
    ELSE IF ~item.isItem
    THEN [modal |-> m, item |-> item, result |-> "TypeError: expected Item"]
    ELSE IF ~m.weights_bound
    THEN [modal |-> m, item |-> item, result |-> "AttributeError: _Modal__weights"]
    ELSE LET placed == weights_add_item(m, item)
         IN  IF placed.result # "ok"
             THEN [modal |-> m, item |-> item, result |-> placed.result]
             ELSE LET added == [placed.item EXCEPT !.view = Some(SELF)]
                  IN  [modal |-> [m EXCEPT !.weights = placed.weights,
                                           !.children = Append(@, added)],
                       item |-> added,
                       result |-> "ok"]

\* is_persistent without the test of the provided-custom-id flag.
is_persistent_ignores_custom_id(m) ==
    /\ m.timeout = None
    /\ \A i \in 1..Len(m.children) : item_is_persistent(m.children[i])

\* Modal.is_persistent()
is_persistent(m) ==
    /\ m.timeout = None
    /\ m.provided_custom_id
    /\ \A i \in 1..Len(m.children) : item_is_persistent(m.children[i])

\* to_callback_data testing the title's truth value (if self.title:).
to_callback_data_truthy_title(m) ==
    LET payload == [custom_id |-> m.custom_id, components |-> to_components(m)]
    IN  IF m.title # None /\ m.title[1] # ""
        THEN payload @@ [title |-> m.title[1]]
        ELSE payload

\* Modal.to_callback_data(): the payload, a mapping from keys to values.
to_callback_data(m) ==
    LET payload == [custom_id |-> m.custom_id, components |-> to_components(m)]
    IN  IF m.title # None
        THEN payload @@ [title |-> m.title[1]]
        ELSE payload

----------------------------------------------------------------------------
(* Class definition: Modal.__init_subclass__ *)

\* Members a class body may declare; tagged members carry
\* __discord_ui_model_type__.
MemberNames == { "on_submit", "on_cancel" }

Member(name, tagged, owner) == [name |-> name, tagged |-> tagged, owner |-> owner]

\* Class bodies: members with distinct names, in any order, each tagged or not.
Body(names, tags) == [i \in 1..Len(names) |-> [name |-> names[i], tagged |-> tags[i]]]

DistinctNameSeqs ==
    { s \in SeqsUpTo(MemberNames, Cardinality(MemberNames)) :
        \A i, j \in 1..Len(s) : i # j => s[i] # s[j] }

ClassBodies ==
    UNION { { Body(names, tags) : tags \in [1..Len(names) -> BOOLEAN] } :
            names \in DistinctNameSeqs }

\* cls.__dict__ of a class at position owner of the chain declaring body.
ClassDict(body, owner) ==
    [i \in 1..Len(body) |-> Member(body[i].name, body[i].tagged, owner)]

\* Modal itself: its own methods, none of them tagged, and the empty child
\* list the base class records for it.
ModalClass ==
    [dict |-> <<Member("__init__", FALSE, 1), Member("add_item", FALSE, 1)>>,
     view_children_items |-> <<>>]

Reverse(s) == [i \in 1..Len(s) |-> s[Len(s) + 1 - i]]

\* cls.__mro__ of a class with dictionary dict deriving from the last class
\* of chain: the class first, then its ancestors up to Modal.
Mro(chain, dict) == <<dict>> \o Reverse([i \in 1..Len(chain) |-> chain[i].dict])

\* hasattr(member, '__discord_ui_model_type__')
HasModelType(member) == member.tagged

\* the two loops of __init_subclass__ over an already reversed mro
RECURSIVE ScanBases(_)
ScanBases(bases) ==
    IF bases = <<>> THEN <<>>
    ELSE SelectSeq(Head(bases), HasModelType) \o ScanBases(Tail(bases))

\* __init_subclass__ rejecting at 5 children already (>= instead of >).
init_subclass_at_five(mro) ==
    LET children == ScanBases(Reverse(mro))
    IN  IF Len(children) >= MaxClassChildren
        THEN [result |-> "TypeError: View cannot have more than 5 children",
              stored |-> None]
        ELSE [result |-> "ok", stored |-> Some(children)]

\* Modal.__init_subclass__(cls): "ok" and the list stored in
\* cls.__view_children_items__, or the exception raised (nothing stored).
init_subclass(mro) ==
    LET children == ScanBases(Reverse(mro))
    IN  IF Len(children) > MaxClassChildren
        THEN [result |-> "TypeError: View cannot have more than 5 children",
              stored |-> None]
        ELSE [result |-> "ok", stored |-> Some(children)]

----------------------------------------------------------------------------
(* State machine of one Modal instance *)

NoCall == [op |-> "init", arg |-> None, item |-> None, result |-> None]

ConstructorArgs ==
    [timeout : TimeoutArgs, title : TitleArgs, custom_id : CustomIdArgs,
     row : RowArgs, children : ChildrenArgs, rnd : UrandomOutcomes,
     bound : BOOLEAN]

Construct(a) ==
    Modal__init__(a.timeout, a.title, a.custom_id, a.row, a.children, a.rnd, a.bound)

NoClasses == <<ModalClass>>
NoDef == [body |-> <<>>, result |-> "none"]

\* Modal(...) has returned.
Init ==
    /\ args \in ConstructorArgs
    /\ modal = Construct(args)
    /\ last = NoCall
    /\ classes = NoClasses
    /\ lastDef = NoDef

\* Arguments add_item is called with: fresh items and a non-Item.
AddArgs == Items \cup { NotAnItem }

\* modal.add_item(item)
AddItem ==
    \E item \in AddArgs :
        LET r == add_item(modal, item)
        IN  /\ modal' = r.modal
            /\ last' = [op |-> "add_item", arg |-> Some(item),
                        item |-> Some(r.item), result |-> Some(r.result)]
            /\ UNCHANGED <<args, classes, lastDef>>

\* modal.is_persistent()
IsPersistent ==
    /\ last' = [op |-> "is_persistent", arg |-> None, item |-> None,
                result |-> Some(is_persistent(modal))]
    /\ UNCHANGED <<modal, args, classes, lastDef>>

\* to_callback_data drawing a new identifier when none was provided.
ToCallbackDataRegenerates ==
    \E rnd \in UrandomOutcomes :
        LET m == IF modal.provided_custom_id THEN modal
                 ELSE [modal EXCEPT !.custom_id = hex(rnd)]
        IN  /\ modal' = m
            /\ last' = [op |-> "to_callback_data", arg |-> None, item |-> None,
                        result |-> Some(to_callback_data(m))]
            /\ UNCHANGED <<args, classes, lastDef>>

\* modal.to_callback_data()
ToCallbackData ==
    /\ last' = [op |-> "to_callback_data", arg |-> None, item |-> None,
                result |-> Some(to_callback_data(modal))]
    /\ UNCHANGED <<modal, args, classes, lastDef>>

Next == AddItem \/ IsPersistent \/ ToCallbackData

Spec == Init /\ [][Next]_vars

----------------------------------------------------------------------------
(* State machine of class definition *)

DefaultArgs ==
    [timeout |-> Some(DefaultTimeout), title |-> None, custom_id |-> MISSING,
     row |-> None, children |-> MISSING,
     rnd |-> [i \in 1..RandomBytes |-> (i * 37) % 256], bound |-> FALSE]

InitSubclass ==
    /\ args = DefaultArgs
    /\ modal = Construct(args)
    /\ last = NoCall
    /\ classes = NoClasses
    /\ lastDef = NoDef

\* class X(<last class of the chain>): <body>
DefineSubclass ==
    \E body \in ClassBodies :
        LET dict == ClassDict(body, Len(classes) + 1)
            r    == init_subclass(Mro(classes, dict))
        IN  /\ r.result = "ok" => Len(classes) <= MaxSubclasses
            /\ classes' = IF r.result = "ok"
                          THEN Append(classes, [dict |-> dict,
                                                view_children_items |-> r.stored[1]])
                          ELSE classes
            /\ lastDef' = [body |-> body, result |-> r.result]
            /\ UNCHANGED <<modal, args, last>>

NextSubclass == DefineSubclass

SpecSubclass == InitSubclass /\ [][NextSubclass]_vars

----------------------------------------------------------------------------
(* Properties *)

Payload == last.result[1]
CalledAdd == last.op = "add_item"
Called(op) == last.op = op

CapacityError == "ValueError: maximum number of children exceeded"
LayoutError == "ValueError: could not find open space for item"
TooManyChildren == "TypeError: View cannot have more than 5 children"

\* C1: the children sequence of a constructed modal never holds more than
\* 5 items, whatever add_item calls follow.
C1_ChildrenAtMostFive == Len(modal.children) <= 5

\* C2: add_item of a valid Item on a modal holding 4 children succeeds and
\* leaves 5; on a modal holding 5 children it raises the capacity error and
\* leaves 5.
C2_FifthAcceptedSixthRejected ==
    [][(last'.op = "add_item" /\ last'.arg[1].isItem) =>
         /\ Len(modal.children) = 4 =>
              (last'.result[1] = "ok" /\ Len(modal'.children) = 5)
         /\ Len(modal.children) = 5 =>
              (last'.result[1] = CapacityError /\ Len(modal'.children) = 5)]_vars

\* C3: is_persistent() returns true exactly when the modal was constructed
\* with timeout None and with a custom_id argument, and every child is
\* persistent; a modal with a generated custom_id is never persistent.
C3_IsPersistentIff ==
    Called("is_persistent") =>
        /\ last.result[1] <=>
             /\ args.timeout = None
             /\ args.custom_id # MISSING
             /\ \A i \in 1..Len(modal.children) : modal.children[i].persistent
        /\ args.custom_id = MISSING => ~last.result[1]

\* C3 witness: is_persistent() returned true on a modal with several
\* children, one of them added through add_item.
C3_Witness ==
    /\ Called("is_persistent")
    /\ last.result[1]
    /\ Len(modal.children) >= 2
    /\ \E i \in 1..Len(modal.children) : modal.children[i].view = Some(SELF)

\* add_item applied to each element of cs in turn, stopping at the first
\* exception.
RECURSIVE AddAll(_, _)
AddAll(m, cs) ==
    IF cs = <<>> THEN [modal |-> m, result |-> "ok"]
    ELSE LET r == add_item(m, Head(cs))
         IN  IF r.result # "ok" THEN [modal |-> m, result |-> r.result]
             ELSE AddAll(r.modal, Tail(cs))

\* C4: constructing a modal with children cs gives what constructing it
\* without children and calling add_item on each element gives: the same
\* children (back-reference set, row placed), or the same exception.
C4_ConstructorAddsEachChild ==
    (Called("init") /\ args.children # MISSING) =>
        LET e == AddAll(Construct([args EXCEPT !.children = MISSING]),
                        args.children[1])
        IN  /\ e.result = "ok"
            /\ modal.children = e.modal.children
            /\ modal.weights = e.modal.weights

TaggedCount(dict) == Cardinality({ i \in 1..Len(dict) : dict[i].tagged })

RECURSIVE TaggedInChain(_)
TaggedInChain(chain) ==
    IF chain = <<>> THEN 0
    ELSE TaggedCount(Head(chain).dict) + TaggedInChain(Tail(chain))

\* C5: a class statement whose chain declares more than 5 tagged members
\* raises the too-many-children error and records no class; one whose chain
\* declares 5 or fewer succeeds and records exactly those members.
C5_DefinitionTimeCap ==
    [][(lastDef' # lastDef \/ classes' # classes) =>
       LET n == TaggedInChain(classes) + TaggedCount(lastDef'.body)
           dict == ClassDict(lastDef'.body, Len(classes) + 1)
           declared == { chain_m \in
                           UNION { { classes[k].dict[i] : i \in 1..Len(classes[k].dict) } :
                                   k \in 1..Len(classes) }
                           \cup { dict[i] : i \in 1..Len(dict) } : chain_m.tagged }
       IN  IF n > 5
           THEN lastDef'.result = TooManyChildren /\ classes' = classes
           ELSE /\ lastDef'.result = "ok"
                /\ Len(classes') = Len(classes) + 1
                /\ SubSeq(classes', 1, Len(classes)) = classes
                /\ classes'[Len(classes')].dict = dict
                /\ Len(classes'[Len(classes')].view_children_items) = n
                /\ { classes'[Len(classes')].view_children_items[i] : i \in 1..n }
                     = declared]_vars

\* C5 witness: the last class of the chain was accepted with exactly 5
\* recorded members and a further class statement, the 6th declaration, was
\* rejected.
C5_Witness ==
    /\ lastDef.result = TooManyChildren
    /\ TaggedInChain(classes) + TaggedCount(lastDef.body) = 6
    /\ Len(classes[Len(classes)].view_children_items) = 5

\* C6 as stated: the payload carries custom_id and components, and a title
\* key exactly when the title is non-empty (None and "" both leave it out).
C6_TitleKeyIffNonEmpty ==
    Called("to_callback_data") =>
        /\ Payload.custom_id = modal.custom_id
        /\ Payload.components = to_components(modal)
        /\ "title" \in DOMAIN Payload <=> (args.title # None /\ args.title[1] # "")
        /\ "title" \in DOMAIN Payload => Payload.title = args.title[1]

\* C6 amended: the payload carries custom_id and components, and a title key
\* exactly when the title is not None (the empty string is sent as "").
C6_TitleKeyIffNotNone ==
    Called("to_callback_data") =>
        /\ Payload.custom_id = modal.custom_id
        /\ Payload.components = to_components(modal)
        /\ "title" \in DOMAIN Payload <=> args.title # None
        /\ "title" \in DOMAIN Payload => Payload.title = args.title[1]

\* C6 witness: a modal titled "" was serialized and the payload has the key.
C6_Witness ==
    /\ Called("to_callback_data")
    /\ args.title = Some("")
    /\ "title" \in DOMAIN Payload
    /\ Payload.title = ""

\* C7: to_callback_data() changes no attribute of the modal, and a call that
\* directly follows another returns the same payload.
C7_SerializationIsPureRead ==
    [][last'.op = "to_callback_data" =>
         /\ modal'.custom_id = modal.custom_id
         /\ modal'.title = modal.title
         /\ modal'.timeout = modal.timeout
         /\ modal'.row = modal.row
         /\ modal'.provided_custom_id = modal.provided_custom_id
         /\ modal'.children = modal.children
         /\ last.op = "to_callback_data" => last'.result = last.result]_vars

\* C7 witness: a modal with a generated identifier and a child was
\* serialized, and the payload carries the identifier drawn at construction.
C7_Witness ==
    /\ Called("to_callback_data")
    /\ args.custom_id = MISSING
    /\ Payload.custom_id = hex(args.rnd)
    /\ Len(modal.children) >= 1

\* C8: the provided-custom-id flag is true exactly when a custom_id argument
\* was passed (the empty string included) and custom_id is then that value;
\* otherwise custom_id is the generated identifier; no later call changes
\* either.
C8_ProvidedFlagAndId ==
    /\ modal.provided_custom_id <=> args.custom_id # MISSING
    /\ args.custom_id # MISSING => modal.custom_id = args.custom_id[1]
    /\ args.custom_id = MISSING =>
         /\ modal.custom_id = hex(args.rnd)
         /\ Len(modal.custom_id) = 2 * RandomBytes

\* C8 witness: custom_id="" was passed and add_item has since succeeded.
C8_Witness ==
    /\ args.custom_id = Some("")
    /\ modal.provided_custom_id
    /\ modal.custom_id = ""
    /\ CalledAdd
    /\ last.result[1] = "ok"

NamesOf(members) == { members[i].name : i \in 1..Len(members) }

\* names of the tagged members declared along chain and in body
TaggedNames(chain, body) ==
    UNION { NamesOf(SelectSeq(chain[k].dict, HasModelType)) : k \in 1..Len(chain) }
    \cup NamesOf(SelectSeq(body, HasModelType))

\* C9: a member name overridden in a subclass is listed once, so every
\* recorded child list has one entry per name and a class statement is
\* rejected only when the chain has more than 5 distinct tagged names.
C9_OverridesCountedOnce ==
    /\ \A k \in 1..Len(classes) :
         Cardinality(NamesOf(classes[k].view_children_items))
           = Len(classes[k].view_children_items)
    /\ lastDef.result = TooManyChildren =>
         Cardinality(TaggedNames(classes, lastDef.body)) > 5

\* C10: a successful add_item appends the item, with its back-reference set
\* to the modal, after the children already present; a failing add_item
\* leaves the children and the item's back-reference as they were.
C10_AddItemAllOrNothing ==
    [][last'.op = "add_item" =>
         LET item  == last'.arg[1]
             after == last'.item[1]
         IN  IF last'.result[1] = "ok"
             THEN /\ modal'.children = Append(modal.children, after)
                  /\ after.view = Some(SELF)
                  /\ after.name = item.name
             ELSE /\ modal'.children = modal.children
                  /\ after.view = item.view]_vars

\* C10 witness: add_item failed in row allocation on a modal of 5 children
\* and the item has no back-reference.
C10_Witness ==
    /\ CalledAdd
    /\ last.result[1] = LayoutError
    /\ last.item[1].view = None
    /\ Len(modal.children) = 5

====
